---------------------------- MODULE Spec2Model ----------------------------
(***************************************************************************)
(* Solana whale tracker: the poll loop (monitoringLoop / processWallet),   *)
(* the swap classifier (parseSwapTransaction), the notification filters    *)
(* and the Supabase queries (positions, processed_signatures).             *)
(*                                                                         *)
(* Conventions                                                             *)
(*   - a transaction signature is its index in the chain (1, 2, ...);     *)
(*     0 stands for "no signature" (an undefined map entry);              *)
(*   - a nullable value is a sequence: <<>> is null, <<v>> is v;           *)
(*   - USD values and token amounts are JavaScript numbers; the model      *)
(*     writes them in hundredths (2500 is 25.00), a price is the exact     *)
(*     quotient [num, den] of value by amount;                             *)
(*   - the parser compares account addresses after toLowerCase(); the      *)
(*     chain of Spec has no two accounts that differ in case only, the     *)
(*     transactions of ParserSpec have.                                    *)
(*                                                                         *)
(* Specifications                                                          *)
(*   - Spec: the poll loop over two wallets; FairSpec: Spec with the       *)
(*     steps whose calls succeed taken in the end;                         *)
(*   - UnpricedSpec: Spec on a chain that also carries swaps paid with a   *)
(*     token calculateUSDValue gives no price to;                          *)
(*   - InertSpec: the poll loop on a chain that also carries a failed      *)
(*     swap; ClosingSpec: on priced buys, unpriced buys and sells;         *)
(*     ScenarioSpec: on the swaps of the 25.00 to 35.00 round trip with    *)
(*     their transfers in either order; ZeroAmountSpec: on swaps whose     *)
(*     traded transfer has amount 0;                                       *)
(*     BetweenWalletsSpec: on swaps between the two tracked wallets,       *)
(*     which are in the history of both;                                   *)
(*   - ParserSpec: parseSwapTransaction alone, called once and once more   *)
(*     on every transaction of a bounded set; FormatSpec:                  *)
(*     formatHoldDuration alone, on a bounded set of durations.            *)
(***************************************************************************)
EXTENDS Integers, Sequences, FiniteSets, TLC

----------------------------------------------------------------------------
(* Bounds of the model *)

\* transactions that ever reach the chain
MaxTx == 3
\* failed calls (source, store, notifier) and process restarts over a run
MaxFaults == 1

----------------------------------------------------------------------------
(* Program constants *)

WRAPPED_SOL == "So11111111111111111111111111111111111111112"
USDC_MINT == "EPjFWdd5AufqSSqeM2qN1xzybapC8G4wEGGkZwyTDt1v"
USDT_MINT == "Es9vMFrzaCERmJfrF4H2FYD4KCoNkY11McCe8BenwNYB"
MIN_BUY_VALUE_USD == 1000
MAX_TOKEN_AGE_MINUTES == 60
estimatedSolPrice == 100
FetchLimit == 10

\* wallets.json: the tracked wallets, in file order
Wallets == <<"W1", "W2">>
WalletSet == {Wallets[i] : i \in 1..Len(Wallets)}

\* an account that is not tracked (the pool on the other side of a swap)
Pool == "Pool"
\* the traded token
TokenM == "TokenM"
\* another token, neither a stablecoin nor wrapped SOL
TokenN == "TokenN"

Null == <<>>
Some(v) == <<v>>

----------------------------------------------------------------------------
(* The transaction source: shapes of HeliusTransaction *)

TokenTransfer(mint, from, to, amount) ==
    [mint |-> mint, fromUserAccount |-> from, toUserAccount |-> to,
     tokenAmount |-> amount]

Kinds == {"buy", "buySmall", "sell", "other"}

\* the other tracked wallet
OtherWallet(w) == IF w = Wallets[1] THEN Wallets[2] ELSE Wallets[1]

\* the transaction of kind k made by wallet w, at place sig of the chain
HeliusTransaction(k, w, sig) ==
    [signature |-> sig,
     timestamp |-> sig * 1500,
     type |-> IF k = "other" THEN "TRANSFER" ELSE "SWAP",
     transactionError |->
        IF k = "buyFailed" THEN Some("InstructionError") ELSE Null,
     tokenTransfers |->
        CASE k = "buy" ->
               << TokenTransfer(TokenM, Pool, w, 100),
                  TokenTransfer(USDC_MINT, w, Pool, 100000) >>
          [] k = "buySmall" ->
               << TokenTransfer(TokenM, Pool, w, 100),
                  TokenTransfer(USDC_MINT, w, Pool, 99999) >>
          [] k = "sell" ->
               << TokenTransfer(TokenM, w, Pool, 100),
                  TokenTransfer(USDC_MINT, Pool, w, 3500) >>
          [] k = "buyUnpriced" ->
               << TokenTransfer(TokenM, Pool, w, 100),
                  TokenTransfer(TokenN, w, Pool, 50) >>
          [] k = "buyFailed" ->
               << TokenTransfer(TokenM, Pool, w, 100),
                  TokenTransfer(USDC_MINT, w, Pool, 100000) >>
          [] k = "betweenWallets" ->
               << TokenTransfer(TokenM, OtherWallet(w), w, 100),
                  TokenTransfer(USDC_MINT, w, OtherWallet(w), 100000) >>
          [] k = "buy25" ->
               << TokenTransfer(TokenM, Pool, w, 100),
                  TokenTransfer(USDC_MINT, w, Pool, 2500) >>
          [] k = "buy25PaymentFirst" ->
               << TokenTransfer(USDC_MINT, w, Pool, 2500),
                  TokenTransfer(TokenM, Pool, w, 100) >>
          [] k = "sell35" ->
               << TokenTransfer(TokenM, w, Pool, 100),
                  TokenTransfer(USDC_MINT, Pool, w, 3500) >>
          [] k = "sell35PaymentFirst" ->
               << TokenTransfer(USDC_MINT, Pool, w, 3500),
                  TokenTransfer(TokenM, w, Pool, 100) >>
          [] k = "buyZero" ->
               << TokenTransfer(TokenM, Pool, w, 0),
                  TokenTransfer(USDC_MINT, w, Pool, 100000) >>
          [] k = "sellZero" ->
               << TokenTransfer(TokenM, w, Pool, 0),
                  TokenTransfer(USDC_MINT, Pool, w, 3500) >>
          [] OTHER ->
               << TokenTransfer(TokenM, w, Pool, 100) >>,
     nativeTransfers |-> << >>]


----------------------------------------------------------------------------
(* services/parser.ts *)

\* String.prototype.toLowerCase on the account names of the model
toLowerCase(account) ==
    CASE account = "W1" -> "w1"
      [] account = "W2" -> "w2"
      [] account = "Pool" -> "pool"
      [] OTHER -> account

\* a?.toLowerCase() === b.toLowerCase()
SameAccount(a, b) == toLowerCase(a) = toLowerCase(b)

\* a loop that returns at its first hit: the least index of those that
\* pass the test, 0 when none does
FirstIndex(hits) ==
    IF hits = {} THEN 0
    ELSE CHOOSE i \in hits : \A j \in hits : i <= j

\* the three loops of calculateUSDValue
calculateUSDValue(tokenTransfers, nativeTransfers, walletAddress, isBuy) ==
    LET Stable(t) ==
            /\ t.mint = USDC_MINT \/ t.mint = USDT_MINT
            /\ \/ isBuy /\ SameAccount(t.fromUserAccount, walletAddress)
               \/ ~isBuy /\ SameAccount(t.toUserAccount, walletAddress)
        Wrapped(t) == t.mint = WRAPPED_SOL
        Native(t) ==
            \/ isBuy /\ SameAccount(t.fromUserAccount, walletAddress)
            \/ ~isBuy /\ SameAccount(t.toUserAccount, walletAddress)
        s == FirstIndex({i \in 1..Len(tokenTransfers) :
                            Stable(tokenTransfers[i])})
        w == FirstIndex({i \in 1..Len(tokenTransfers) :
                            Wrapped(tokenTransfers[i])})
        n == FirstIndex({i \in 1..Len(nativeTransfers) :
                            Native(nativeTransfers[i])})
    IN  IF s # 0 THEN tokenTransfers[s].tokenAmount
        ELSE IF w # 0 THEN tokenTransfers[w].tokenAmount * estimatedSolPrice
        ELSE IF n # 0
             THEN ((nativeTransfers[n].amount * 100) \div 1000000000)
                        * estimatedSolPrice
             ELSE 0

\* tx.timestamp - tokenCreationTime, in whole minutes
TokenAgeMinutes(timestamp, tokenCreationTime) ==
    (timestamp - tokenCreationTime) \div 60

\* the transfer parseSwapTransaction picks: the first one, wrapped SOL
\* skipped, that the wallet receives or sends
PickedTransfer(tx, walletAddress) ==
    LET Involves(t) ==
            /\ t.mint # WRAPPED_SOL
            /\ \/ SameAccount(t.toUserAccount, walletAddress)
               \/ SameAccount(t.fromUserAccount, walletAddress)
    IN  FirstIndex({i \in 1..Len(tx.tokenTransfers) :
                        Involves(tx.tokenTransfers[i])})

\* whether parseSwapTransaction asks for the token's creation time
NeedsCreationTime(tx, walletAddress) ==
    /\ tx.type = "SWAP"
    /\ tx.transactionError = Null
    /\ PickedTransfer(tx, walletAddress) # 0
    /\ SameAccount(
          tx.tokenTransfers[PickedTransfer(tx, walletAddress)].toUserAccount,
          walletAddress)

\* parseSwapTransaction without the checks of lines 15-23
parseSwapTransactionUnguarded(tx, walletAddress, tokenCreationTime) ==
    LET i == PickedTransfer(tx, walletAddress)
    IN  IF i = 0 THEN Null
        ELSE LET tokenTransfer == tx.tokenTransfers[i]
                 isBuy == SameAccount(tokenTransfer.toUserAccount,
                                      walletAddress)
                 usdValue == calculateUSDValue(tx.tokenTransfers,
                                tx.nativeTransfers, walletAddress, isBuy)
             IN  Some([type |-> IF isBuy THEN "buy" ELSE "sell",
                       tokenMint |-> tokenTransfer.mint,
                       amount |-> tokenTransfer.tokenAmount,
                       priceUsd |-> [num |-> usdValue,
                                     den |-> tokenTransfer.tokenAmount],
                       valueUsd |-> usdValue,
                       signature |-> tx.signature,
                       timestamp |-> tx.timestamp])

\* parseSwapTransaction, given what getTokenCreationTime answered
\* (Null when the time is unknown); the result is Null or <<parsed>>
parseSwapTransaction(tx, walletAddress, tokenCreationTime) ==
    IF tx.type # "SWAP" THEN Null
    ELSE IF tx.transactionError # Null THEN Null
    ELSE LET i == PickedTransfer(tx, walletAddress)
         IN  IF i = 0 THEN Null
             ELSE LET tokenTransfer == tx.tokenTransfers[i]
                      isBuy == SameAccount(tokenTransfer.toUserAccount,
                                           walletAddress)
                      usdValue == calculateUSDValue(tx.tokenTransfers,
                                     tx.nativeTransfers, walletAddress, isBuy)
                      price == [num |-> usdValue,
                                den |-> tokenTransfer.tokenAmount]
                  IN  IF /\ isBuy
                         /\ tokenCreationTime # Null
                         /\ tokenCreationTime[1] # 0
                         /\ TokenAgeMinutes(tx.timestamp, tokenCreationTime[1])
                                > MAX_TOKEN_AGE_MINUTES
                      THEN Null
                      ELSE Some([type |-> IF isBuy THEN "buy" ELSE "sell",
                                 tokenMint |-> tokenTransfer.mint,
                                 amount |-> tokenTransfer.tokenAmount,
                                 priceUsd |-> price,
                                 valueUsd |-> usdValue,
                                 signature |-> tx.signature,
                                 timestamp |-> tx.timestamp])

----------------------------------------------------------------------------
(* utils/filters.ts *)

\* the filter with a strict comparison
shouldNotifyBuyStrict(transactionValueUsd) ==
    transactionValueUsd > MIN_BUY_VALUE_USD * 100

shouldNotifyBuy(transactionValueUsd) ==
    transactionValueUsd >= MIN_BUY_VALUE_USD * 100

shouldNotifySell == TRUE


----------------------------------------------------------------------------
(* State *)

VARIABLES
    chain,                    \* the chain: <<[kind, owner], ...>>, oldest first
    positions,                \* table positions; a row's id is its index
    processed_signatures,     \* table processed_signatures
    sent,                     \* messages the Telegram bot has delivered
    lastProcessedSignatures,  \* index.ts: wallet -> signature (0: no entry)
    tokenAgeCache,            \* parser.ts: mint -> creation time
    pc,                       \* where the poll loop stands
    wi,                       \* monitoringLoop: index of the wallet in turn
    transactions,             \* processWallet: the fetched batch, newest first
    lastProcessed,            \* processWallet: the watermark read at line 71
    idx,                      \* processWallet: place in reversedTxs
    parsed,                   \* processWallet: result of parseSwapTransaction
    position,                 \* processWallet: result of getOpenPosition
    faults,                   \* failed calls and restarts so far
    probe                     \* parser.ts taken alone: a call of
                              \* parseSwapTransaction and what it returned

vars == << chain, positions, processed_signatures, sent,
           lastProcessedSignatures, tokenAgeCache, pc, wi, transactions,
           lastProcessed, idx, parsed, position, faults, probe >>

store == << positions, processed_signatures >>
locals == << transactions, lastProcessed, idx, parsed, position >>
memory == << lastProcessedSignatures, tokenAgeCache >>

\* the creation time the source reports for a mint, when it answers:
\* the token is ten minutes old at timestamp 1200
TokenCreationTime(mint) == 600

Tx(sig) == HeliusTransaction(chain[sig].kind, chain[sig].owner, sig)

Reverse(seq) == [i \in 1..Len(seq) |-> seq[Len(seq) + 1 - i]]

\* what the source returns for an address: its transactions, newest
\* first, at most limit of them
getWalletTransactions(address, limit) ==
    LET mine == SelectSeq([i \in 1..Len(chain) |-> i],
                          LAMBDA i : \/ chain[i].owner = address
                                     \/ chain[i].kind = "betweenWallets")
        newestFirst == Reverse(mine)
    IN  IF Len(newestFirst) > limit
        THEN SubSeq(newestFirst, 1, limit)
        ELSE newestFirst

walletAddress == Wallets[wi]
reversedTxs == Reverse(transactions)
\* the transaction the loop body is working on
tx == Tx(reversedTxs[idx])

ProcessedSigs == {r.signature : r \in processed_signatures}

Init ==
    /\ chain = << >>
    /\ positions = << >>
    /\ processed_signatures = {}
    /\ sent = << >>
    /\ lastProcessedSignatures = [w \in WalletSet |-> 0]
    /\ tokenAgeCache = << >>
    /\ pc = "fetch"
    /\ wi = 1
    /\ transactions = << >>
    /\ lastProcessed = 0
    /\ idx = 0
    /\ parsed = Null
    /\ position = Null
    /\ faults = 0
    /\ probe = Null

----------------------------------------------------------------------------
(* database/queries.ts and schema.sql *)

\* new Date(seconds * 1000): the store keeps the instant in milliseconds
ToTimestamptz(seconds) == seconds * 1000

\* positions.buy_signature without its UNIQUE constraint
BuySignatureUnconstrained(signature) == FALSE

\* positions.buy_signature is UNIQUE
BuySignatureTaken(signature) ==
    \E i \in 1..Len(positions) : positions[i].buy_signature = signature

\* the row recordBuyTransaction inserts
BuyRow(id, data) ==
    [id |-> id,
     wallet_address |-> data.walletAddress,
     token_mint |-> data.tokenMint,
     buy_signature |-> data.signature,
     buy_timestamp |-> ToTimestamptz(data.timestamp),
     buy_price_usd |-> data.priceUsd,
     buy_amount |-> data.amount,
     buy_value_usd |-> data.valueUsd,
     sell_signature |-> Null,
     sell_timestamp |-> Null,
     sell_price_usd |-> Null,
     sell_amount |-> Null,
     sell_value_usd |-> Null,
     hold_duration_seconds |-> Null,
     profit_loss_usd |-> Null,
     profit_loss_percent |-> Null,
     is_open |-> TRUE]

\* the open rows of the pair
OpenRows(wallet, tokenMint) ==
    {i \in 1..Len(positions) :
        /\ positions[i].wallet_address = wallet
        /\ positions[i].token_mint = tokenMint
        /\ positions[i].is_open}

\* the query without its order by buy_timestamp: any open row of the pair
getOpenPositionUnordered(wallet, tokenMint) == OpenRows(wallet, tokenMint)

\* getOpenPosition: the rows the query may return, those of the latest
\* buy_timestamp (order desc, limit 1); none means PGRST116
getOpenPosition(wallet, tokenMint) ==
    {i \in OpenRows(wallet, tokenMint) :
        \A j \in OpenRows(wallet, tokenMint) :
            positions[j].buy_timestamp <= positions[i].buy_timestamp}

\* the percentage taken over the sell price instead of the buy price
ProfitLossPercentOverSell(sellPrice, buyPrice) ==
    IF sellPrice.den = 0 \/ buyPrice.den = 0 \/ sellPrice.num = 0
    THEN Null
    ELSE LET n == (sellPrice.num * buyPrice.den
                      - buyPrice.num * sellPrice.den) * 100
             d == buyPrice.den * sellPrice.num
         IN  Some((n \div d) * 100 + (((n % d) * 100) \div d))

\* ((sell - buy) / buy) * 100 on prices num/den, in hundredths of a
\* percent; Null when the quotient is not a finite number (JSON carries
\* NaN and Infinity as null)
ProfitLossPercent(sellPrice, buyPrice) ==
    IF sellPrice.den = 0 \/ buyPrice.den = 0 \/ buyPrice.num = 0
    THEN Null
    ELSE LET n == (sellPrice.num * buyPrice.den
                      - buyPrice.num * sellPrice.den) * 100
             d == sellPrice.den * buyPrice.num
         IN  Some((n \div d) * 100 + (((n % d) * 100) \div d))

\* the row as the update of recordSellTransaction leaves it
SoldRow(row, data) ==
    LET buyTimestamp == row.buy_timestamp
        sellTimestamp == data.timestamp * 1000
    IN  [row EXCEPT
            !.sell_signature = Some(data.signature),
            !.sell_timestamp = Some(sellTimestamp),
            !.sell_price_usd = Some(data.priceUsd),
            !.sell_amount = Some(data.amount),
            !.sell_value_usd = Some(data.valueUsd),
            !.hold_duration_seconds =
                Some((sellTimestamp - buyTimestamp) \div 1000),
            !.profit_loss_usd = Some(data.valueUsd - row.buy_value_usd),
            !.profit_loss_percent =
                ProfitLossPercent(data.priceUsd, row.buy_price_usd),
            !.is_open = FALSE]

\* the data processWallet hands to recordBuyTransaction and
\* recordSellTransaction
TransactionData(wallet, p) ==
    [walletAddress |-> wallet,
     tokenMint |-> p.tokenMint,
     signature |-> p.signature,
     timestamp |-> p.timestamp,
     priceUsd |-> p.priceUsd,
     amount |-> p.amount,
     valueUsd |-> p.valueUsd]

\* a message of the Telegram bot
Notification(type, wallet, p) ==
    [type |-> type, walletAddress |-> wallet, signature |-> p.signature,
     tokenSymbol |-> p.tokenMint, amount |-> p.amount]

----------------------------------------------------------------------------
(* index.ts: monitoringLoop and processWallet, one action per awaited call *)

\* a call to the source, the store or the notifier fails
Fails ==
    /\ faults < MaxFaults
    /\ faults' = faults + 1

\* the next wallet is started with the batch of the previous one still
\* being walked
NextWalletKeepsBatch ==
    /\ wi' = IF wi = Len(Wallets) THEN 1 ELSE wi + 1
    /\ pc' = "walk"
    /\ UNCHANGED locals

\* processWallet returns: monitoringLoop moves to the next wallet, and
\* after the last one to the next cycle
NextWallet ==
    /\ wi' = IF wi = Len(Wallets) THEN 1 ELSE wi + 1
    /\ pc' = "fetch"
    /\ transactions' = << >>
    /\ lastProcessed' = 0
    /\ idx' = 0
    /\ parsed' = Null
    /\ position' = Null

\* the catch block of processWallet is entered
Throw ==
    /\ pc' = "catch"
    /\ UNCHANGED << wi, locals >>

\* `continue`, or the end of the loop body: on to the next transaction
NextTransaction ==
    /\ pc' = "walk"
    /\ idx' = idx + 1
    /\ parsed' = Null
    /\ position' = Null
    /\ UNCHANGED << wi, transactions, lastProcessed >>

\* lines 68-74: the fetch succeeds
Fetch ==
    /\ pc = "fetch"
    /\ transactions' = getWalletTransactions(walletAddress, FetchLimit)
    /\ lastProcessed' = lastProcessedSignatures[walletAddress]
    /\ idx' = 1
    /\ pc' = "walk"
    /\ UNCHANGED << probe, chain, store, sent, memory, wi, parsed, position,
                   faults >>

\* line 68: getWalletTransactions throws
FetchFails ==
    /\ pc = "fetch"
    /\ Fails
    /\ Throw
    /\ UNCHANGED << probe, chain, store, sent, memory >>

\* lines 76-80: the loop is over, or stops at the watermark
AtWatermark ==
    /\ idx <= Len(transactions)
    /\ lastProcessed # 0
    /\ reversedTxs[idx] = lastProcessed

WalkEnds ==
    /\ pc = "walk"
    /\ idx > Len(transactions) \/ AtWatermark
    /\ pc' = "advance"
    /\ UNCHANGED << probe, chain, store, sent, memory, wi, locals, faults >>

\* isSignatureProcessed when the query answers
isSignatureProcessed(signature) == signature \in ProcessedSigs

\* lines 83-87
CheckProcessed ==
    /\ pc = "walk"
    /\ idx <= Len(transactions)
    /\ ~AtWatermark
    /\ IF isSignatureProcessed(reversedTxs[idx])
       THEN NextTransaction
       ELSE /\ pc' = "parse"
            /\ UNCHANGED << wi, locals >>
    /\ UNCHANGED << probe, chain, store, sent, memory, faults >>

\* queries.ts 14-18: the query fails, the error is logged and
\* isSignatureProcessed returns false
CheckProcessedFails ==
    /\ pc = "walk"
    /\ idx <= Len(transactions)
    /\ ~AtWatermark
    /\ Fails
    /\ pc' = "parse"
    /\ UNCHANGED << probe, chain, store, sent, memory, wi, locals >>

\* the ledger entry is written before the rows
AfterParseMarkFirst(result) ==
    IF result = Null THEN "markNotSwap" ELSE "mark"

\* where processWallet goes with the result of parseSwapTransaction
AfterParse(result) ==
    IF result = Null THEN "markNotSwap"
    ELSE IF result[1].type = "buy" THEN "recordBuy"
    ELSE "getOpen"

\* line 90: parseSwapTransaction; for a buy it awaits getTokenCreationTime,
\* which answers from the cache, or asks the source and caches the answer,
\* or returns null when the source fails or knows nothing
Parse ==
    /\ pc = "parse"
    /\ \E creation \in
            IF ~NeedsCreationTime(tx, walletAddress) THEN {Null}
            ELSE LET mint == tx.tokenTransfers[
                                PickedTransfer(tx, walletAddress)].mint
                 IN  IF mint \in DOMAIN tokenAgeCache
                     THEN {Some(tokenAgeCache[mint])}
                     ELSE {Null, Some(TokenCreationTime(mint))} :
          /\ parsed' = parseSwapTransaction(tx, walletAddress, creation)
          /\ pc' = AfterParse(parsed')
          /\ tokenAgeCache' =
                IF NeedsCreationTime(tx, walletAddress) /\ creation # Null
                THEN (tx.tokenTransfers[
                         PickedTransfer(tx, walletAddress)].mint
                            :> creation[1]) @@ tokenAgeCache
                ELSE tokenAgeCache
    /\ UNCHANGED << probe, chain, store, sent, lastProcessedSignatures, wi,
                    transactions, lastProcessed, idx, position, faults >>

\* where processWallet goes after the buy is recorded (line 114)
AfterRecordBuy(p) ==
    IF shouldNotifyBuy(p.valueUsd) THEN "notifyBuy" ELSE "mark"

\* lines 101-111: recordBuyTransaction; the insert is refused when the
\* buy_signature exists, and recordBuyTransaction throws
RecordBuy ==
    /\ pc = "recordBuy"
    /\ IF BuySignatureTaken(parsed[1].signature)
       THEN /\ Throw
            /\ UNCHANGED positions
       ELSE /\ positions' = Append(positions,
                    BuyRow(Len(positions) + 1,
                           TransactionData(walletAddress, parsed[1])))
            /\ pc' = AfterRecordBuy(parsed[1])
            /\ UNCHANGED << wi, locals >>
    /\ UNCHANGED << probe, chain, processed_signatures, sent, memory,
                   faults >>

\* recordBuyTransaction throws on a store error
RecordBuyFails ==
    /\ pc = "recordBuy"
    /\ Fails
    /\ Throw
    /\ UNCHANGED << probe, chain, store, sent, memory >>

\* lines 116-125: sendBuyNotification
NotifyBuy ==
    /\ pc = "notifyBuy"
    /\ sent' = Append(sent, Notification("buy", walletAddress, parsed[1]))
    /\ pc' = "mark"
    /\ UNCHANGED << probe, chain, store, memory, wi, locals, faults >>

\* telegram.ts 39-42: sendMessage fails and the error is rethrown
NotifyBuyFails ==
    /\ pc = "notifyBuy"
    /\ Fails
    /\ Throw
    /\ UNCHANGED << probe, chain, store, sent, memory >>

\* AfterGetOpenPosition without the test of line 134
AfterGetOpenPositionUnchecked(found) == "recordSell"

\* where processWallet goes with the result of getOpenPosition (line 134)
AfterGetOpenPosition(found) ==
    IF found = Null THEN "markNoPosition" ELSE "recordSell"

\* line 132: getOpenPosition
GetOpenPosition ==
    /\ pc = "getOpen"
    /\ \E found \in
            IF getOpenPosition(walletAddress, parsed[1].tokenMint) = {}
            THEN {Null}
            ELSE {Some(positions[i]) :
                    i \in getOpenPosition(walletAddress, parsed[1].tokenMint)} :
          /\ position' = found
          /\ pc' = AfterGetOpenPosition(found)
    /\ UNCHANGED << probe, chain, store, sent, memory, wi, transactions,
                    lastProcessed, idx, parsed, faults >>

\* queries.ts 77-83: getOpenPosition throws on a store error
GetOpenPositionFails ==
    /\ pc = "getOpen"
    /\ Fails
    /\ Throw
    /\ UNCHANGED << probe, chain, store, sent, memory >>

\* lines 141-149: recordSellTransaction looks the open position up again
\* and closes it; it returns without an update when there is none
RecordSell ==
    /\ pc = "recordSell"
    /\ IF getOpenPosition(walletAddress, parsed[1].tokenMint) = {}
       THEN UNCHANGED positions
       ELSE \E i \in getOpenPosition(walletAddress, parsed[1].tokenMint) :
                positions' = [positions EXCEPT
                    ![i] = SoldRow(positions[i],
                               TransactionData(walletAddress, parsed[1]))]
    /\ pc' = "notifySell"
    /\ UNCHANGED << probe, chain, processed_signatures, sent, memory, wi,
                    locals,
                    faults >>

\* recordSellTransaction throws on a store error
RecordSellFails ==
    /\ pc = "recordSell"
    /\ Fails
    /\ Throw
    /\ UNCHANGED << probe, chain, store, sent, memory >>

\* lines 158-175: sendSellNotification
NotifySell ==
    /\ pc = "notifySell"
    /\ IF shouldNotifySell
       THEN sent' = Append(sent, Notification("sell", walletAddress, parsed[1]))
       ELSE UNCHANGED sent
    /\ pc' = "mark"
    /\ UNCHANGED << probe, chain, store, memory, wi, locals, faults >>

\* telegram.ts 78-81: sendMessage fails and the error is rethrown
NotifySellFails ==
    /\ pc = "notifySell"
    /\ shouldNotifySell
    /\ Fails
    /\ Throw
    /\ UNCHANGED << probe, chain, store, sent, memory >>

\* the calls of markSignatureProcessed: line 93, line 136, line 179
MarkPcs == {"markNotSwap", "markNoPosition", "mark"}

\* markSignatureProcessed: the insert is refused when the signature is in
\* the table (PRIMARY KEY), and markSignatureProcessed throws
MarkSignatureProcessed ==
    /\ pc \in MarkPcs
    /\ IF tx.signature \in ProcessedSigs
       THEN /\ Throw
            /\ UNCHANGED processed_signatures
       ELSE /\ processed_signatures' = processed_signatures \cup
                    {[signature |-> tx.signature,
                      wallet_address |-> walletAddress]}
            /\ NextTransaction
    /\ UNCHANGED << probe, chain, positions, sent, memory, faults >>

\* markSignatureProcessed throws on a store error
MarkSignatureProcessedFails ==
    /\ pc \in MarkPcs
    /\ Fails
    /\ Throw
    /\ UNCHANGED << probe, chain, store, sent, memory >>

\* the watermark is taken from the other end of the batch
UpdateLastProcessedOldest ==
    /\ pc = "advance"
    /\ lastProcessedSignatures' =
            IF Len(transactions) > 0
            THEN [lastProcessedSignatures EXCEPT
                    ![walletAddress] = transactions[Len(transactions)]]
            ELSE lastProcessedSignatures
    /\ NextWallet
    /\ UNCHANGED << probe, chain, store, sent, tokenAgeCache, faults >>

\* one watermark is kept for all the wallets
UpdateLastProcessedShared ==
    /\ pc = "advance"
    /\ lastProcessedSignatures' =
            IF Len(transactions) > 0
            THEN [w \in WalletSet |-> transactions[1]]
            ELSE lastProcessedSignatures
    /\ NextWallet
    /\ UNCHANGED << probe, chain, store, sent, tokenAgeCache, faults >>

\* lines 183-185: the watermark is set, and processWallet returns
UpdateLastProcessed ==
    /\ pc = "advance"
    /\ lastProcessedSignatures' =
            IF Len(transactions) > 0
            THEN [lastProcessedSignatures EXCEPT
                    ![walletAddress] = transactions[1]]
            ELSE lastProcessedSignatures
    /\ NextWallet
    /\ UNCHANGED << probe, chain, store, sent, tokenAgeCache, faults >>

\* the catch block forgets the watermark of the wallet
CatchClearsWatermark ==
    /\ pc = "catch"
    /\ lastProcessedSignatures' =
            [lastProcessedSignatures EXCEPT ![walletAddress] = 0]
    /\ NextWallet
    /\ UNCHANGED << probe, chain, store, sent, tokenAgeCache, faults >>

\* the catch block sets the watermark to the newest of the batch
CatchAdvancesWatermark ==
    /\ pc = "catch"
    /\ lastProcessedSignatures' =
            IF Len(transactions) > 0
            THEN [lastProcessedSignatures EXCEPT
                    ![walletAddress] = transactions[1]]
            ELSE lastProcessedSignatures
    /\ NextWallet
    /\ UNCHANGED << probe, chain, store, sent, tokenAgeCache, faults >>

\* the error ends the cycle: the loop starts over at the first wallet
CatchAbandonsCycle ==
    /\ pc = "catch"
    /\ wi' = 1
    /\ pc' = "fetch"
    /\ transactions' = << >>
    /\ lastProcessed' = 0
    /\ idx' = 0
    /\ parsed' = Null
    /\ position' = Null
    /\ UNCHANGED << probe, chain, store, sent, memory, faults >>

\* lines 186-189: the error is logged, and processWallet returns
Catch ==
    /\ pc = "catch"
    /\ NextWallet
    /\ UNCHANGED << probe, chain, store, sent, memory, faults >>

\* lines 252-260: the process exits on SIGTERM or SIGINT and is started
\* again: the tables stay, the maps of the process are empty
Restart ==
    /\ faults < MaxFaults
    /\ faults' = faults + 1
    /\ lastProcessedSignatures' = [w \in WalletSet |-> 0]
    /\ tokenAgeCache' = << >>
    /\ pc' = "fetch"
    /\ wi' = 1
    /\ transactions' = << >>
    /\ lastProcessed' = 0
    /\ idx' = 0
    /\ parsed' = Null
    /\ position' = Null
    /\ UNCHANGED << probe, chain, store, sent >>

\* a tracked wallet has made a transaction; the program sees the chain
\* through the fetch of that wallet alone, so the transaction is taken to
\* arrive when the wallet is about to be fetched
Arrive ==
    /\ pc = "fetch"
    /\ Len(chain) < MaxTx
    /\ \E k \in Kinds :
          chain' = Append(chain, [kind |-> k, owner |-> walletAddress])
    /\ UNCHANGED << probe, store, sent, memory, pc, wi, locals, faults >>

\* the steps the program takes when its calls succeed
Progress ==
    \/ Fetch
    \/ WalkEnds
    \/ CheckProcessed
    \/ Parse
    \/ RecordBuy
    \/ NotifyBuy
    \/ GetOpenPosition
    \/ RecordSell
    \/ NotifySell
    \/ MarkSignatureProcessed
    \/ UpdateLastProcessed
    \/ Catch

Failure ==
    \/ FetchFails
    \/ CheckProcessedFails
    \/ RecordBuyFails
    \/ NotifyBuyFails
    \/ GetOpenPositionFails
    \/ RecordSellFails
    \/ NotifySellFails
    \/ MarkSignatureProcessedFails

Next ==
    \/ Progress
    \/ Failure
    \/ Restart
    \/ Arrive

Spec == Init /\ [][Next]_vars

\* polling goes on, and calls end up succeeding: the failures of a run
\* are bounded, and a step whose call can succeed is taken
FairSpec == Spec /\ WF_vars(Progress)

\* a tracked wallet swaps for the traded token and pays with a token that
\* calculateUSDValue gives no price to
ArriveUnpriced ==
    /\ pc = "fetch"
    /\ Len(chain) < MaxTx
    /\ chain' = Append(chain, [kind |-> "buyUnpriced",
                                owner |-> walletAddress])
    /\ UNCHANGED << probe, store, sent, memory, pc, wi, locals, faults >>

\* the program on a chain that carries such swaps too
UnpricedSpec == Init /\ [][Next \/ ArriveUnpriced]_vars

\* a tracked wallet buys the traded token for 1000.00 or sells it
ArriveSwap ==
    /\ pc = "fetch"
    /\ Len(chain) < MaxTx
    /\ \E k \in {"buy", "sell"} :
          chain' = Append(chain, [kind |-> k, owner |-> walletAddress])
    /\ UNCHANGED << probe, store, sent, memory, pc, wi, locals, faults >>

\* the program on a chain of priced buys, unpriced buys and sells
ClosingSpec ==
    Init /\ [][Progress \/ Failure \/ Restart \/ ArriveSwap
                  \/ ArriveUnpriced]_vars

\* the transactions of a chain that also carries a swap that failed: one
\* with the transfers of a buy and transactionError set
InertKinds == {"buy", "sell", "other", "buyFailed"}

ArriveInert ==
    /\ pc = "fetch"
    /\ Len(chain) < MaxTx
    /\ \E k \in InertKinds :
          chain' = Append(chain, [kind |-> k, owner |-> walletAddress])
    /\ UNCHANGED << probe, store, sent, memory, pc, wi, locals, faults >>

\* the program on such a chain
InertSpec ==
    Init /\ [][Progress \/ Failure \/ Restart \/ ArriveInert]_vars

\* a tracked wallet buys the traded token from the other tracked wallet:
\* one transaction, in the history of both addresses
ArriveBetweenWallets ==
    /\ pc = "fetch"
    /\ Len(chain) < MaxTx
    /\ \E w \in WalletSet :
          chain' = Append(chain, [kind |-> "betweenWallets", owner |-> w])
    /\ UNCHANGED << probe, store, sent, memory, pc, wi, locals, faults >>

\* the program on a chain of buys, sells and swaps between the wallets
BetweenWalletsSpec ==
    Init /\ [][Progress \/ Failure \/ Restart \/ ArriveSwap
                  \/ ArriveBetweenWallets]_vars

\* the swaps of the round trip from 25.00 to 35.00 USDC, with their two
\* transfers in either order, beside the buy for 1000.00
ScenarioKinds ==
    {"buy", "buy25", "buy25PaymentFirst", "sell35", "sell35PaymentFirst"}

ArriveScenario ==
    /\ pc = "fetch"
    /\ Len(chain) < MaxTx
    /\ \E k \in ScenarioKinds :
          chain' = Append(chain, [kind |-> k, owner |-> walletAddress])
    /\ UNCHANGED << probe, store, sent, memory, pc, wi, locals, faults >>

\* the program on a chain of such swaps
ScenarioSpec ==
    Init /\ [][Progress \/ Failure \/ Restart \/ ArriveScenario]_vars

\* the transactions of a chain that also carries swaps whose traded
\* transfer has tokenAmount 0
ZeroAmountKinds == {"buy", "sell", "buyZero", "sellZero"}

ArriveZeroAmount ==
    /\ pc = "fetch"
    /\ Len(chain) < MaxTx
    /\ \E k \in ZeroAmountKinds :
          chain' = Append(chain, [kind |-> k, owner |-> walletAddress])
    /\ UNCHANGED << probe, store, sent, memory, pc, wi, locals, faults >>

\* the program on such a chain
ZeroAmountSpec ==
    Init /\ [][Progress \/ Failure \/ Restart \/ ArriveZeroAmount]_vars

----------------------------------------------------------------------------
(* services/parser.ts taken alone *)

\* transfers of one transaction handed to the parser
MaxTransfers == 2

ProbeMints == {TokenM, WRAPPED_SOL, USDC_MINT, USDT_MINT}
\* <<fromUserAccount, toUserAccount>>; w1 is an account of its own, whose
\* address differs from that of W1 in letter case only
ProbeParties == {<<"W1", Pool>>, <<Pool, "W1">>, <<Pool, "W2">>,
                 <<"W1", "W1">>, <<"w1", Pool>>, <<Pool, "w1">>}
ProbeAmount(mint) ==
    CASE mint = TokenM -> 100
      [] mint = WRAPPED_SOL -> 2
      [] mint = USDT_MINT -> 3600
      [] OTHER -> 3500

ProbeTransfers ==
    {TokenTransfer(m, p[1], p[2], ProbeAmount(m)) :
        m \in ProbeMints, p \in ProbeParties}

SeqsUpTo(S, n) == UNION {[1..k -> S] : k \in 0..n}

\* nativeTransfers: none, or one of 0.01 SOL (in lamports) that the wallet
\* sends or receives
ProbeNativeTransfers ==
    {<< >>} \cup
    {<< [fromUserAccount |-> p[1], toUserAccount |-> p[2],
         amount |-> 10000000] >> : p \in {<<"W1", Pool>>, <<Pool, "W1">>}}

\* the transactions of at most n token transfers handed to the parser:
\* of wallet W1's history, 900, 3630 or 3660 seconds after the creation
\* time of the token
ProbeTransactions(n) ==
    {[signature |-> 1,
      timestamp |-> ts,
      type |-> ty,
      transactionError |-> e,
      tokenTransfers |-> tt,
      nativeTransfers |-> nt] :
        ts \in {1500, 4230, 4260},
        ty \in {"SWAP", "TRANSFER"},
        e \in {Null, Some("InstructionError")},
        tt \in SeqsUpTo(ProbeTransfers, n),
        nt \in ProbeNativeTransfers}

\* a call parseSwapTransaction(tx, walletAddress), with the answer
\* getTokenCreationTime will give, before it returns
Probes(n) ==
    {[tx |-> t, walletAddress |-> "W1", tokenCreationTime |-> c,
      returned |-> FALSE, result |-> Null, again |-> Null] :
        t \in ProbeTransactions(n),
        c \in {Null, Some(TokenCreationTime(TokenM))}}

ParserInit ==
    /\ probe \in {Some(p) : p \in Probes(MaxTransfers)}
    /\ chain = << >>
    /\ positions = << >>
    /\ processed_signatures = {}
    /\ sent = << >>
    /\ lastProcessedSignatures = [w \in WalletSet |-> 0]
    /\ tokenAgeCache = << >>
    /\ pc = "fetch"
    /\ wi = 1
    /\ transactions = << >>
    /\ lastProcessed = 0
    /\ idx = 0
    /\ parsed = Null
    /\ position = Null
    /\ faults = 0

\* parseSwapTransaction returns
ParseAlone ==
    /\ probe # Null
    /\ ~probe[1].returned
    /\ probe' = Some([probe[1] EXCEPT
                        !.returned = TRUE,
                        !.result = parseSwapTransaction(probe[1].tx,
                                        probe[1].walletAddress,
                                        probe[1].tokenCreationTime)])
    /\ UNCHANGED << chain, store, sent, memory, pc, wi, locals, faults >>

\* parseSwapTransaction is called once more on the same transaction and
\* wallet: getTokenCreationTime answers from the cache when the first call
\* cached a creation time and the process was not started again since,
\* and asks the source otherwise
ParseAgain ==
    /\ probe # Null
    /\ probe[1].returned
    /\ probe[1].again = Null
    /\ \E restarted \in BOOLEAN :
       \E creation \in
            IF ~NeedsCreationTime(probe[1].tx, probe[1].walletAddress)
            THEN {Null}
            ELSE IF ~restarted /\ probe[1].tokenCreationTime # Null
                 THEN {probe[1].tokenCreationTime}
                 ELSE {Null, Some(TokenCreationTime(TokenM))} :
          probe' = Some([probe[1] EXCEPT
                            !.again = Some(parseSwapTransaction(
                                              probe[1].tx,
                                              probe[1].walletAddress,
                                              creation))])
    /\ UNCHANGED << chain, store, sent, memory, pc, wi, locals, faults >>

ParserSpec == ParserInit /\ [][ParseAlone \/ ParseAgain]_vars

----------------------------------------------------------------------------
(* utils/filters.ts: formatHoldDuration taken alone *)

\* a text "<n><unit>"; the parts of a returned text are joined by a space
Part(n, unit) == [n |-> n, unit |-> unit]

\* formatHoldDuration with the hours of the last part not taken modulo 24
formatHoldDurationAllHours(seconds) ==
    LET minutes == seconds \div 60
        hours == minutes \div 60
        remainingMinutes == minutes % 60
        days == hours \div 24
    IN  IF seconds < 60 THEN << Part(seconds, "s") >>
        ELSE IF minutes < 60 THEN << Part(minutes, "m") >>
        ELSE IF hours < 24
             THEN IF remainingMinutes > 0
                  THEN << Part(hours, "h"), Part(remainingMinutes, "m") >>
                  ELSE << Part(hours, "h") >>
        ELSE IF hours > 0
             THEN << Part(days, "d"), Part(hours, "h") >>
             ELSE << Part(days, "d") >>

\* lines 22-43
formatHoldDuration(seconds) ==
    LET minutes == seconds \div 60
        hours == minutes \div 60
        remainingMinutes == minutes % 60
        days == hours \div 24
        remainingHours == hours % 24
    IN  IF seconds < 60 THEN << Part(seconds, "s") >>
        ELSE IF minutes < 60 THEN << Part(minutes, "m") >>
        ELSE IF hours < 24
             THEN IF remainingMinutes > 0
                  THEN << Part(hours, "h"), Part(remainingMinutes, "m") >>
                  ELSE << Part(hours, "h") >>
        ELSE IF remainingHours > 0
             THEN << Part(days, "d"), Part(remainingHours, "h") >>
             ELSE << Part(days, "d") >>

\* the durations handed to it: whole hours up to MaxHoldHours, and those
\* plus a part of an hour
MaxHoldHours == 52

HoldOffsets == {0, 59, 60, 1799, 3599}

HoldDurations ==
    {h * 3600 + o : h \in 0..MaxHoldHours, o \in HoldOffsets}

FormatInit ==
    /\ probe \in {Some([seconds |-> s, returned |-> FALSE,
                         result |-> << >>]) : s \in HoldDurations}
    /\ chain = << >>
    /\ positions = << >>
    /\ processed_signatures = {}
    /\ sent = << >>
    /\ lastProcessedSignatures = [w \in WalletSet |-> 0]
    /\ tokenAgeCache = << >>
    /\ pc = "fetch"
    /\ wi = 1
    /\ transactions = << >>
    /\ lastProcessed = 0
    /\ idx = 0
    /\ parsed = Null
    /\ position = Null
    /\ faults = 0

\* formatHoldDuration returns
FormatAlone ==
    /\ probe # Null
    /\ ~probe[1].returned
    /\ probe' = Some([probe[1] EXCEPT
                        !.returned = TRUE,
                        !.result = formatHoldDuration(probe[1].seconds)])
    /\ UNCHANGED << chain, store, sent, memory, pc, wi, locals, faults >>

FormatSpec == FormatInit /\ [][FormatAlone]_vars

----------------------------------------------------------------------------
(* Properties *)

Range(seq) == {seq[i] : i \in 1..Len(seq)}

\* the program positions inside the loop body, past the ledger check
PipelinePcs ==
    {"parse", "recordBuy", "notifyBuy", "getOpen", "recordSell",
     "notifySell"} \cup MarkPcs

\* the classifier tags the transaction as a sell of its wallet
IsSell(sig) ==
    LET p == parseSwapTransaction(Tx(sig), chain[sig].owner, Null)
    IN  p # Null /\ p[1].type = "sell"

SellNotified(sig) ==
    \E i \in 1..Len(sent) : sent[i].type = "sell" /\ sent[i].signature = sig

\* a row of positions carries the signature, as its buy or as its sell
Recorded(sig) ==
    \E i \in 1..Len(positions) :
        \/ positions[i].buy_signature = sig
        \/ positions[i].sell_signature = Some(sig)

\* C1: for every (wallet_address, token_mint) pair, positions holds at most
\* one row with is_open = true.
AtMostOneOpen ==
    \A w \in WalletSet :
        \A m \in {positions[i].token_mint : i \in 1..Len(positions)} :
            Cardinality(OpenRows(w, m)) <= 1

\* C2: when the walk of a cycle is over and the wallet's previous watermark
\* is in the fetched batch, the loop body has run for every transaction of
\* the batch newer than the watermark and for none at or older than it.
WatermarkWalk ==
    (/\ pc = "advance"
     /\ lastProcessed # 0
     /\ lastProcessed \in Range(transactions))
    => LET k == CHOOSE i \in 1..Len(reversedTxs) :
                    reversedTxs[i] = lastProcessed
       IN  \A i \in 1..Len(reversedTxs) : (i > k) <=> (i < idx)

\* C3: every transaction of a fetched batch ends up in processed_signatures,
\* as long as polling goes on and calls end up succeeding.
EventualHandling ==
    \A s \in 1..MaxTx :
        (pc = "walk" /\ s \in Range(transactions)) ~> (s \in ProcessedSigs)

\* C4: while the loop body works on a signature that is in
\* processed_signatures, no step inserts or updates a position row or sends
\* a notification.
LedgerGuard ==
    [][(pc \in PipelinePcs /\ tx.signature \in ProcessedSigs)
        => (positions' = positions /\ sent' = sent)]_vars

\* C5: a run of the loop body on a transaction that an earlier run has
\* already recorded or marked processed leaves positions as it is.
Idempotence ==
    [][(/\ pc \in PipelinePcs
        /\ tx.signature \in ProcessedSigs \/ Recorded(tx.signature))
        => positions' = positions]_vars

\* C6: the watermark skips only what the ledger would skip too: when the
\* walk stops at the watermark, every transaction it leaves out is in
\* processed_signatures, so that a walk with the watermark cleared ends
\* with the same tables and the same notifications.
WatermarkOnlyOptimization ==
    (pc = "walk" /\ AtWatermark)
    => \A j \in idx..Len(reversedTxs) : reversedTxs[j] \in ProcessedSigs

\* C7: a recordBuyTransaction whose buy_signature is already in positions
\* leaves positions unchanged and does not abort the wallet's cycle.
DuplicateBuyBenign ==
    [][(RecordBuy /\ BuySignatureTaken(parsed[1].signature))
        => (positions' = positions /\ pc' # "catch")]_vars

\* C8: a markSignatureProcessed for a signature already in
\* processed_signatures leaves the table unchanged and raises no error.
MarkProcessedIdempotent ==
    [][(MarkSignatureProcessed /\ tx.signature \in ProcessedSigs)
        => (processed_signatures' = processed_signatures
            /\ pc' # "catch")]_vars

AllSellsNotified ==
    \A s \in ProcessedSigs : IsSell(s) => SellNotified(s)

----------------------------------------------------------------------------
(* The buy filter *)

BuyNotified(sig) ==
    \E i \in 1..Len(sent) :
        sent[i].type = "buy" /\ sent[i].signature = sig

\* C11: a classified buy reaches the notifier exactly when its USD value
\* is at least the configured minimum, and whether it does or not its
\* position row is there when its signature is about to be marked: every
\* buy message is of a stored buy worth the minimum or more, a buy is sent on
\* to the notifier only with its row stored and its value at the minimum, and
\* when line 179 is reached for a buy its row is stored and it has been
\* notified if and only if its value is at least the minimum
BuyFilter ==
    /\ \A i \in 1..Len(sent) :
          sent[i].type = "buy" =>
              \E r \in 1..Len(positions) :
                  /\ positions[r].buy_signature = sent[i].signature
                  /\ positions[r].buy_value_usd >= MIN_BUY_VALUE_USD * 100
    /\ (pc = "notifyBuy") =>
          /\ BuySignatureTaken(parsed[1].signature)
          /\ parsed[1].valueUsd >= MIN_BUY_VALUE_USD * 100
    /\ (pc = "mark" /\ parsed[1].type = "buy") =>
          /\ BuySignatureTaken(parsed[1].signature)
          /\ BuyNotified(parsed[1].signature)
                <=> parsed[1].valueUsd >= MIN_BUY_VALUE_USD * 100

\* a buy of 999.99 has its row and its ledger entry and no message, and a
\* buy of 1000.00 has all three
BuyBelowMinimumStoredUnnotified ==
    /\ \E i \in 1..Len(positions) :
          /\ positions[i].buy_value_usd = MIN_BUY_VALUE_USD * 100 - 1
          /\ positions[i].buy_signature \in ProcessedSigs
          /\ ~BuyNotified(positions[i].buy_signature)
    /\ \E i \in 1..Len(positions) :
          /\ positions[i].buy_value_usd = MIN_BUY_VALUE_USD * 100
          /\ positions[i].buy_signature \in ProcessedSigs
          /\ BuyNotified(positions[i].buy_signature)

----------------------------------------------------------------------------
(* Failures within a cycle *)

\* the wallet monitoringLoop takes after the one in turn
WalletAfter(i) == IF i = Len(Wallets) THEN 1 ELSE i + 1

\* a step of the loop, short of a shutdown, as C12 has it
IsolatedStep ==
    /\ (pc # "catch" /\ pc' = "catch") =>
          /\ wi' = wi
          /\ lastProcessedSignatures' = lastProcessedSignatures
    /\ (pc = "catch" /\ ~Restart) =>
          /\ pc' = "fetch"
          /\ wi' = WalletAfter(wi)
          /\ (ENABLED Progress)'
    /\ (wi' # wi /\ ~Restart) =>
          /\ pc' = "fetch"
          /\ wi' = WalletAfter(wi)

\* C12: an error while a wallet is processed is caught in that wallet's
\* processWallet, the loop then goes on with the wallet that follows in
\* the same cycle, no wallet is skipped, and the loop always has a next
\* step to take: short of a shutdown, the catch block is entered with the
\* wallet in turn and the watermarks unchanged and left for the fetch of
\* the next wallet, where the loop has a step to take, and the wallet in
\* turn only ever changes to the next one
PartialFailureIsolation == [][IsolatedStep]_vars

\* the second wallet's batch is being walked in a cycle in which the
\* first wallet's processing was cut short by an error: the first wallet
\* has transactions and still no watermark
RemainingWalletProcessedAfterFailure ==
    /\ wi = 2
    /\ pc = "walk"
    /\ Len(transactions) > 0
    /\ faults > 0
    /\ \E i \in 1..Len(chain) : chain[i].owner = Wallets[1]
    /\ lastProcessedSignatures[Wallets[1]] = 0

----------------------------------------------------------------------------
(* The watermark *)

\* the signatures of a wallet on the chain; a greater one is newer
SignaturesOf(w) == {i \in 1..Len(chain) : chain[i].owner = w}

\* processWallet returns after its walk
WalkReturns == pc = "advance" /\ pc' = "fetch" /\ ~Restart

\* C13: when processWallet returns after the walk over a fetched batch
\* that is not empty, the watermark of the wallet is the signature at
\* index 0 of the batch as fetched, which is the newest signature of the
\* batch, however many of the batch the walk handled; the other wallets'
\* watermarks are as they were
WatermarkAdvance ==
    [][(WalkReturns /\ Len(transactions) > 0) =>
          /\ lastProcessedSignatures'[walletAddress] = transactions[1]
          /\ \A s \in Range(transactions) :
                s <= lastProcessedSignatures'[walletAddress]
          /\ \A w \in WalletSet \ {walletAddress} :
                lastProcessedSignatures'[w] = lastProcessedSignatures[w]]_vars

\* the first wallet's watermark is its newest signature, with two or more
\* signatures in its history, after a walk that did not handle the newest
WatermarkAtNewestOfPartlyHandledBatch ==
    /\ pc = "fetch"
    /\ wi = 2
    /\ Cardinality(SignaturesOf(Wallets[1])) >= 2
    /\ \A s \in SignaturesOf(Wallets[1]) :
          s <= lastProcessedSignatures[Wallets[1]]
    /\ lastProcessedSignatures[Wallets[1]] \notin ProcessedSigs

\* C14: from one return of processWallet to the next, the watermark of
\* every wallet stays as it is or moves to a signature that is strictly
\* newer in the wallet's history; no step of the program other than a
\* shutdown, which empties the map, moves a watermark back
WatermarkMonotonic ==
    [][~Restart =>
          \A w \in WalletSet :
             \/ lastProcessedSignatures'[w] = lastProcessedSignatures[w]
             \/ /\ lastProcessedSignatures'[w] > lastProcessedSignatures[w]
                /\ lastProcessedSignatures'[w] \in SignaturesOf(w)]_vars

\* a walk is over whose batch is newer than the watermark an earlier
\* cycle has left
WatermarkAboutToMoveOn ==
    /\ pc = "advance"
    /\ lastProcessedSignatures[walletAddress] # 0
    /\ Len(transactions) > 0
    /\ transactions[1] > lastProcessedSignatures[walletAddress]

----------------------------------------------------------------------------
(* Position rows *)

\* the fields of a row that recordSellTransaction writes
SellFields(row) ==
    << row.sell_signature, row.sell_timestamp, row.sell_price_usd,
       row.sell_amount, row.sell_value_usd, row.hold_duration_seconds,
       row.profit_loss_usd, row.profit_loss_percent >>

\* C15: in every reachable state, each of the eight sell-derived fields of
\* every position row is null exactly when the row is open
AppendOnceClose ==
    \A i \in 1..Len(positions) :
        \A f \in 1..Len(SellFields(positions[i])) :
            (SellFields(positions[i])[f] = Null) <=> positions[i].is_open

\* C16: in every reachable state, whatever polls, retries and restarts
\* there have been, no two position rows have the same buy_signature
BuySignatureUnique ==
    \A i, j \in 1..Len(positions) :
        positions[i].buy_signature = positions[j].buy_signature => i = j

\* a buy whose row is stored is handled again, after a restart or a
\* failure before its ledger entry, and is about to be inserted
BuyAboutToBeInsertedAgain ==
    /\ pc = "recordBuy"
    /\ \E i \in 1..Len(positions) :
          positions[i].buy_signature = parsed[1].signature

\* C17: in every reachable state, every closed position has
\* hold_duration_seconds equal to its sell time less its buy time, in
\* seconds, and that is not negative
HoldDuration ==
    \A i \in 1..Len(positions) :
        ~positions[i].is_open =>
            /\ positions[i].hold_duration_seconds[1] * 1000
                  = positions[i].sell_timestamp[1]
                        - positions[i].buy_timestamp
            /\ positions[i].hold_duration_seconds[1] >= 0

\* a step that writes to a row already in the table, as C18 has it: the
\* row is of the wallet and mint of the sell in hand, open, with the
\* latest buy_timestamp among the open rows of that pair, and it is
\* closed with the sell's signature; no other row changes and none goes
SellMatchingStep ==
    /\ Len(positions') >= Len(positions)
    /\ (\E j \in 1..Len(positions) : positions'[j] # positions[j]) =>
          /\ pc = "recordSell"
          /\ parsed[1].type = "sell"
          /\ \E i \in 1..Len(positions) :
                /\ positions[i].wallet_address = walletAddress
                /\ positions[i].token_mint = parsed[1].tokenMint
                /\ positions[i].is_open
                /\ \A j \in 1..Len(positions) :
                      (/\ positions[j].wallet_address = walletAddress
                       /\ positions[j].token_mint = parsed[1].tokenMint
                       /\ positions[j].is_open)
                      => positions[j].buy_timestamp
                            <= positions[i].buy_timestamp
                /\ ~positions'[i].is_open
                /\ positions'[i].sell_signature = Some(parsed[1].signature)
                /\ \A j \in 1..Len(positions) \ {i} :
                      positions'[j] = positions[j]
                /\ Len(positions') = Len(positions)

\* C18: a classified sell closes only a position of its own wallet and
\* token, namely the open row of that pair with the most recent
\* buy_timestamp, and leaves every other row as it was
SellMatching == [][SellMatchingStep]_vars

\* of two rows of one wallet and token, a sell has closed the one bought
\* later and left the one bought earlier open
LatestOfTwoOpenRowsClosed ==
    \E i, j \in 1..Len(positions) :
        /\ positions[i].wallet_address = positions[j].wallet_address
        /\ positions[i].token_mint = positions[j].token_mint
        /\ positions[i].buy_timestamp < positions[j].buy_timestamp
        /\ positions[i].is_open
        /\ ~positions[j].is_open
        /\ positions[j].sell_timestamp[1] > positions[j].buy_timestamp

----------------------------------------------------------------------------
(* Storage and the ledger *)

\* a transaction of the chain that parses to a buy whatever
\* getTokenCreationTime answers
IsBuyAtAnyAge(sig) ==
    /\ NeedsCreationTime(Tx(sig), chain[sig].owner)
    /\ TokenAgeMinutes(Tx(sig).timestamp, TokenCreationTime(TokenM))
            <= MAX_TOKEN_AGE_MINUTES

\* C19: in every reachable state, after errors and shutdowns at any step
\* too, a signature is in the ledger only with its storage done: line 179
\* is reached for a buy only with a row of that buy_signature stored, and
\* for a sell that found an open position only with a closed row of that
\* sell_signature stored; and every ledger entry of a transaction that
\* can only classify as a buy has a row with that buy_signature
StorageBeforeMark ==
    /\ (pc = "mark" /\ parsed[1].type = "buy") =>
          \E i \in 1..Len(positions) :
              positions[i].buy_signature = parsed[1].signature
    /\ (pc = "mark" /\ parsed[1].type = "sell") =>
          \E i \in 1..Len(positions) :
              /\ positions[i].sell_signature = Some(parsed[1].signature)
              /\ ~positions[i].is_open
    /\ \A r \in processed_signatures :
          \/ \E i \in 1..Len(positions) :
                positions[i].buy_signature = r.signature
          \/ ~IsBuyAtAnyAge(r.signature)

\* after a failed call or a shutdown, the ledger holds a buy and the sell
\* matched to it, and the row of the two is stored and closed
LedgerEntriesWithTheirRow ==
    /\ faults > 0
    /\ \E i \in 1..Len(positions) :
          /\ ~positions[i].is_open
          /\ positions[i].buy_signature \in ProcessedSigs
          /\ positions[i].sell_signature[1] \in ProcessedSigs

----------------------------------------------------------------------------
(* The classifier *)

\* the scan of tokenTransfers as C20 words it, from place i on: Null, or
\* the direction, mint and amount of the first transfer that matches
RECURSIVE ScanFrom(_, _, _)
ScanFrom(tokenTransfers, wallet, i) ==
    IF i > Len(tokenTransfers) THEN Null
    ELSE IF tokenTransfers[i].mint = WRAPPED_SOL
         THEN ScanFrom(tokenTransfers, wallet, i + 1)
    ELSE IF tokenTransfers[i].toUserAccount = wallet
         THEN Some([type |-> "buy",
                    tokenMint |-> tokenTransfers[i].mint,
                    amount |-> tokenTransfers[i].tokenAmount])
    ELSE IF tokenTransfers[i].fromUserAccount = wallet
         THEN Some([type |-> "sell",
                    tokenMint |-> tokenTransfers[i].mint,
                    amount |-> tokenTransfers[i].tokenAmount])
    ELSE ScanFrom(tokenTransfers, wallet, i + 1)

\* the call is of a swap that did not fail, and the age filter does not
\* discard what the scan finds
ReachesScan(p) ==
    /\ p.tx.type = "SWAP"
    /\ p.tx.transactionError = Null
    /\ \/ p.tokenCreationTime = Null
       \/ TokenAgeMinutes(p.tx.timestamp, p.tokenCreationTime[1])
              <= MAX_TOKEN_AGE_MINUTES

\* C20: for a swap that did not fail, parseSwapTransaction returns what
\* the scan in source order gives: wrapped SOL is skipped, the first
\* transfer whose toUserAccount is the wallet gives a buy of that
\* transfer's mint and amount, the first whose fromUserAccount is the
\* wallet, with no such buy before it, gives a sell, and null is returned
\* when no transfer matches
ClassificationDirection ==
    (probe # Null /\ probe[1].returned /\ ReachesScan(probe[1])) =>
        LET expected == ScanFrom(probe[1].tx.tokenTransfers,
                                 probe[1].walletAddress, 1)
            result == probe[1].result
        IN  IF expected = Null THEN result = Null
            ELSE /\ result # Null
                 /\ result[1].type = expected[1].type
                 /\ result[1].tokenMint = expected[1].tokenMint
                 /\ result[1].amount = expected[1].amount

----------------------------------------------------------------------------
(* Transactions the classifier drops *)

\* the transaction is not a swap, or it failed
Inert(sig) ==
    Tx(sig).type # "SWAP" \/ Tx(sig).transactionError # Null

Notified(sig) ==
    \E i \in 1..Len(sent) : sent[i].signature = sig

\* C21: parseSwapTransaction returns null for a transaction whose type is
\* not SWAP or whose transactionError is set, though its transfers are
\* those of a buy or of a sell, and such a transaction changes no position
\* and sends no message: past the parse of one, the result in hand is null
\* and the loop stands at the ledger write of line 93, and no row and no
\* message ever carries the signature of one
InertTransactions ==
    /\ (pc \in PipelinePcs \ {"parse"} /\ Inert(reversedTxs[idx])) =>
          /\ parsed = Null
          /\ pc = "markNotSwap"
    /\ \A sig \in 1..Len(chain) :
          (Recorded(sig) \/ Notified(sig)) => ~Inert(sig)

\* a transfer-type transaction and a failed swap are in the ledger, and a
\* buy handled with them has its row
InertTransactionsHandled ==
    /\ \E s \in ProcessedSigs : Tx(s).type # "SWAP"
    /\ \E s \in ProcessedSigs :
          Tx(s).type = "SWAP" /\ Tx(s).transactionError # Null
    /\ Len(positions) > 0

----------------------------------------------------------------------------
(* USD value *)

\* the least index of a non-empty set of indices
Least(S) == CHOOSE i \in S : \A j \in S : i <= j

\* valueUsd as C22 words it, in hundredths: the stablecoin transfer the
\* wallet sends (buy) or receives (sell), else the wrapped SOL transfer at
\* the estimate, else the native transfer the wallet sends (buy) or
\* receives (sell) at the estimate, else 0
ValueByPriority(t, wallet, isBuy) ==
    LET WithWallet(x) ==
            IF isBuy THEN x.fromUserAccount = wallet
                     ELSE x.toUserAccount = wallet
        stable == {i \in 1..Len(t.tokenTransfers) :
                      /\ t.tokenTransfers[i].mint \in {USDC_MINT, USDT_MINT}
                      /\ WithWallet(t.tokenTransfers[i])}
        wrapped == {i \in 1..Len(t.tokenTransfers) :
                      t.tokenTransfers[i].mint = WRAPPED_SOL}
        native == {i \in 1..Len(t.nativeTransfers) :
                      WithWallet(t.nativeTransfers[i])}
    IN  IF stable # {} THEN t.tokenTransfers[Least(stable)].tokenAmount
        ELSE IF wrapped # {}
             THEN t.tokenTransfers[Least(wrapped)].tokenAmount
                      * estimatedSolPrice
        ELSE IF native # {}
             THEN ((t.nativeTransfers[Least(native)].amount * 100)
                        \div 1000000000) * estimatedSolPrice
        ELSE 0

\* C22: whenever parseSwapTransaction returns a buy or a sell, its
\* valueUsd is the value by the priority stablecoin, wrapped SOL, native
\* transfer, zero, with the stablecoin and native transfers taken in the
\* direction of the wallet's role
UsdValuePriority ==
    (probe # Null /\ probe[1].returned /\ probe[1].result # Null) =>
        probe[1].result[1].valueUsd =
            ValueByPriority(probe[1].tx, probe[1].walletAddress,
                            probe[1].result[1].type = "buy")

----------------------------------------------------------------------------
(* The age filter *)

\* the call gets as far as the age filter with a buy (a sell) in hand
ClassifiedAs(p, type) ==
    /\ p.tx.type = "SWAP"
    /\ p.tx.transactionError = Null
    /\ PickedTransfer(p.tx, p.walletAddress) # 0
    /\ (type = "buy") <=> NeedsCreationTime(p.tx, p.walletAddress)

\* C23: a classified buy is discarded if and only if the creation time of
\* the token is known and the transaction is more than
\* 60 * MAX_TOKEN_AGE_MINUTES seconds later than it; with the creation
\* time unknown the buy passes; a sell is never discarded
AgeFilter ==
    (probe # Null /\ probe[1].returned) =>
        /\ ClassifiedAs(probe[1], "buy") =>
              ((probe[1].result = Null) <=>
                  /\ probe[1].tokenCreationTime # Null
                  /\ probe[1].tx.timestamp - probe[1].tokenCreationTime[1]
                        > 60 * MAX_TOKEN_AGE_MINUTES)
        /\ ClassifiedAs(probe[1], "sell") => probe[1].result # Null

----------------------------------------------------------------------------
(* Transfers of amount zero *)

\* C24: a transaction whose classified transfer has amount 0 is never
\* forwarded to the notifier: no message is of amount 0
ZeroAmountNotNotified ==
    \A i \in 1..Len(sent) : sent[i].amount # 0

----------------------------------------------------------------------------
(* Profit and loss of a closed position *)

\* (sell - buy) / buy * 100 of two finite prices, buy not 0, kept to the
\* two decimals of the column, in hundredths of a percent
PercentChange(sell, buy) ==
    LET n == (sell.num * buy.den - buy.num * sell.den) * 100
        d == sell.den * buy.num
    IN  (n \div d) * 100 + (((n % d) * 100) \div d)

\* a price that is a finite number
Finite(price) == price.den # 0

\* the buy of 25000.00 at 0.000025 and the sell of 35000.00 at 0.000035
\* (prices in hundredths per unit)
RoundTripBuy ==
    [walletAddress |-> "W1", tokenMint |-> TokenM, signature |-> 1,
     timestamp |-> 1500, priceUsd |-> [num |-> 25, den |-> 10000],
     amount |-> 1000, valueUsd |-> 2500000]

RoundTripSell ==
    [RoundTripBuy EXCEPT !.signature = 2, !.timestamp = 3000,
        !.priceUsd = [num |-> 35, den |-> 10000], !.valueUsd = 3500000]

\* C25: every closed position holds profit_loss_usd = sell value - buy
\* value and, its buy price being a finite number other than 0,
\* profit_loss_percent = (sell price - buy price) / buy price * 100, both
\* over its own buy fields; the round trip from 25000 at 0.000025 to 35000
\* at 0.000035 gives 10000 and 40.00
ProfitAndLossOnClose ==
    /\ \A i \in 1..Len(positions) :
          ~positions[i].is_open =>
             /\ positions[i].profit_loss_usd =
                   Some(positions[i].sell_value_usd[1]
                           - positions[i].buy_value_usd)
             /\ (/\ Finite(positions[i].sell_price_usd[1])
                 /\ Finite(positions[i].buy_price_usd)
                 /\ positions[i].buy_price_usd.num # 0) =>
                   positions[i].profit_loss_percent =
                      Some(PercentChange(positions[i].sell_price_usd[1],
                                         positions[i].buy_price_usd))
    /\ SoldRow(BuyRow(1, RoundTripBuy), RoundTripSell).profit_loss_usd
          = Some(1000000)
    /\ SoldRow(BuyRow(1, RoundTripBuy), RoundTripSell).profit_loss_percent
          = Some(4000)

\* a position bought for 1000.00 is closed for 35.00: -965.00, -96.50 %
PositionClosedAtALoss ==
    \E i \in 1..Len(positions) :
        /\ ~positions[i].is_open
        /\ positions[i].buy_value_usd = 100000
        /\ positions[i].profit_loss_usd = Some(-96500)
        /\ positions[i].profit_loss_percent = Some(-9650)

----------------------------------------------------------------------------
(* The round trip from 25.00 to 35.00 USDC *)

\* S1: the wallet receives the token, at most MAX_TOKEN_AGE_MINUTES old,
\* and sends 25.00 USDC
IsS1(sig) ==
    /\ chain[sig].kind \in {"buy25", "buy25PaymentFirst"}
    /\ TokenAgeMinutes(Tx(sig).timestamp, TokenCreationTime(TokenM))
            <= MAX_TOKEN_AGE_MINUTES

\* S2: the wallet sends the token and receives 35.00 USDC
IsS2(sig) == chain[sig].kind \in {"sell35", "sell35PaymentFirst"}

\* S2 is the next transaction of S1's wallet
RoundTrip(s1, s2) ==
    /\ s1 < s2
    /\ IsS1(s1)
    /\ IsS2(s2)
    /\ chain[s1].owner = chain[s2].owner
    /\ \A k \in (s1 + 1)..(s2 - 1) : chain[k].owner # chain[s1].owner

RowsBoughtBy(sig) ==
    {i \in 1..Len(positions) : positions[i].buy_signature = sig}

SellMessages(sig) ==
    {i \in 1..Len(sent) : sent[i].type = "sell" /\ sent[i].signature = sig}

\* C26: in a run without failures, whatever the order of its two
\* transfers, a handled S1 has opened exactly one position (token M, buy
\* value 25.00) without a buy notification, and a handled S2 that follows
\* it has closed that position with a profit of 10.00 and 40.00 % and sent
\* one sell notification
EndToEndScenario ==
    /\ \A s1 \in 1..Len(chain) :
          (faults = 0 /\ IsS1(s1) /\ s1 \in ProcessedSigs) =>
             /\ Cardinality(RowsBoughtBy(s1)) = 1
             /\ \A i \in RowsBoughtBy(s1) :
                   /\ positions[i].token_mint = TokenM
                   /\ positions[i].wallet_address = chain[s1].owner
                   /\ positions[i].buy_value_usd = 2500
                   /\ positions[i].is_open
                         = (positions[i].sell_signature = Null)
             /\ ~BuyNotified(s1)
    /\ \A s1, s2 \in 1..Len(chain) :
          (/\ faults = 0
           /\ RoundTrip(s1, s2)
           /\ {s1, s2} \subseteq ProcessedSigs) =>
             /\ \A i \in RowsBoughtBy(s1) :
                   /\ positions[i].sell_signature = Some(s2)
                   /\ positions[i].profit_loss_usd = Some(1000)
                   /\ positions[i].profit_loss_percent = Some(4000)
             /\ Cardinality(SellMessages(s2)) = 1

----------------------------------------------------------------------------
(* Closing a position bought at price 0 *)

\* a closed row whose buy_price_usd is 0
ClosedFromZeroPrice(i) ==
    /\ ~positions[i].is_open
    /\ Finite(positions[i].buy_price_usd)
    /\ positions[i].buy_price_usd.num = 0

\* C27: a position whose buy_price_usd is 0 is closed with a defined value
\* of profit_loss_percent, and once the cycle that closed it has walked
\* its batch without a failure the sell's signature is in the ledger
ZeroBuyPrice ==
    \A i \in 1..Len(positions) :
        ClosedFromZeroPrice(i) =>
           /\ positions[i].profit_loss_percent # Null
           /\ (faults = 0 /\ pc = "advance") =>
                 positions[i].sell_signature[1] \in ProcessedSigs

----------------------------------------------------------------------------
(* Hold-duration formatting *)

\* C28: for s >= 86400 seconds formatHoldDuration returns "<d>d <h>h" with
\* d = floor(s / 86400) and h = floor(s / 3600) mod 24, without the hours
\* part when h = 0; 187200 seconds give "2d 4h"
HoldDurationFormatting ==
    (probe # Null /\ probe[1].returned /\ probe[1].seconds >= 86400) =>
        LET s == probe[1].seconds
            d == s \div 86400
            h == (s \div 3600) % 24
        IN  /\ h # 0 => probe[1].result = << Part(d, "d"), Part(h, "h") >>
            /\ h = 0 => probe[1].result = << Part(d, "d") >>
            /\ s = 187200 =>
                  probe[1].result = << Part(2, "d"), Part(4, "h") >>

\* 187200 seconds have been formatted as "2d 4h"
TwoDaysFourHoursFormatted ==
    /\ probe # Null
    /\ probe[1].returned
    /\ probe[1].seconds = 187200
    /\ probe[1].result = << Part(2, "d"), Part(4, "h") >>

----------------------------------------------------------------------------
(* The order of the steps on one transaction *)

\* the place of a program position in the loop body: ledger check,
\* classification, position lookup and write, notification, ledger insert
StepRank ==
    [p \in PipelinePcs \cup {"walk"} |->
        CASE p = "walk" -> 1
          [] p = "parse" -> 2
          [] p = "getOpen" -> 3
          [] p \in {"recordBuy", "recordSell"} -> 4
          [] p \in {"notifyBuy", "notifySell"} -> 5
          [] OTHER -> 6]

\* the message a step sends
NewMessage == sent'[Len(sent')]

\* a step inside the loop body moves on in the order of the steps
StepsInOrder ==
    (/\ pc \in DOMAIN StepRank
     /\ pc' \in PipelinePcs) =>
        /\ StepRank[pc] < StepRank[pc']
        /\ idx' = idx
        /\ transactions' = transactions

\* a message is sent with its position write done
WrittenBeforeNotified ==
    sent' # sent =>
        \E i \in 1..Len(positions) :
            \/ /\ NewMessage.type = "buy"
               /\ positions[i].buy_signature = NewMessage.signature
            \/ /\ NewMessage.type = "sell"
               /\ positions[i].sell_signature = Some(NewMessage.signature)

\* a signature enters the ledger at the end of the loop body, with the
\* notification of its transaction, if it has one, sent
NotifiedBeforeMarked ==
    processed_signatures' # processed_signatures =>
        /\ pc \in MarkPcs
        /\ processed_signatures' \ processed_signatures =
              {[signature |-> tx.signature, wallet_address |-> walletAddress]}
        /\ (/\ parsed # Null
            /\ parsed[1].type = "buy"
            /\ shouldNotifyBuy(parsed[1].valueUsd)) => BuyNotified(tx.signature)
        /\ (/\ parsed # Null
            /\ parsed[1].type = "sell"
            /\ pc = "mark") => SellNotified(tx.signature)

\* no message is sent for a signature that is in the ledger
NotMarkedBeforeNotified ==
    sent' # sent => NewMessage.signature \notin ProcessedSigs

\* one step of the program keeps the order of the steps on a transaction
StepOrderStep ==
    /\ StepsInOrder
    /\ WrittenBeforeNotified
    /\ NotifiedBeforeMarked
    /\ NotMarkedBeforeNotified

\* C29: on every transaction the steps come in the order ledger check,
\* classification, position write, filter, notification, ledger insert: a
\* message is sent only with its position write done, a signature enters
\* the ledger only with its notification, if any, sent, and no message is
\* sent for a signature in the ledger
StepOrder == [][StepOrderStep]_vars

----------------------------------------------------------------------------
(* The order of the transactions of one batch *)

\* the batch is walked from its oldest transaction to its newest, and
\* every position write and every message is the one of the transaction
\* the walk stands at
ChronologicalStep ==
    /\ (pc \in DOMAIN StepRank) =>
          \A i, j \in 1..Len(reversedTxs) :
              i < j => Tx(reversedTxs[i]).timestamp
                          < Tx(reversedTxs[j]).timestamp
    /\ (pc \in DOMAIN StepRank /\ pc' \in DOMAIN StepRank) =>
          /\ transactions' = transactions
          /\ idx' >= idx
    /\ positions' # positions =>
          /\ pc \in DOMAIN StepRank
          /\ \E i \in 1..Len(positions') :
                /\ i > Len(positions) \/ positions'[i] # positions[i]
                /\ \/ positions'[i].buy_signature = reversedTxs[idx]
                   \/ positions'[i].sell_signature = Some(reversedTxs[idx])
    /\ sent' # sent =>
          /\ pc \in DOMAIN StepRank
          /\ NewMessage.signature = reversedTxs[idx]

\* at the end of a cycle that met no failure, a buy of the batch that
\* passes the age filter and the sell that follows it in the batch have
\* opened and closed a position
BuyThenSellInOneBatch ==
    (faults = 0 /\ pc = "advance") =>
        \A i \in 1..(Len(reversedTxs) - 1) :
            (/\ IsBuyAtAnyAge(reversedTxs[i])
             /\ IsSell(reversedTxs[i + 1])) =>
                \E r \in 1..Len(positions) :
                    /\ positions[r].buy_signature = reversedTxs[i]
                    /\ positions[r].sell_signature
                          = Some(reversedTxs[i + 1])

\* C30: within one cycle the transactions of a wallet are handled oldest
\* first, every position write and message of an older one before those
\* of a newer one, and a buy followed by a sell of the token in one batch
\* opens and then closes the position
ChronologicalHandling ==
    [][ChronologicalStep]_vars /\ []BuyThenSellInOneBatch

----------------------------------------------------------------------------
(* One timeline *)

\* one step of the single loop: a wallet's processing starts with nothing
\* of the previous one left, after that one has returned (or after a
\* start of the process); every write is made by the pipeline of the one
\* wallet being processed; the row a sell closes is the row its lookup
\* returned, untouched in between
SingleTimelineStep ==
    /\ wi' # wi =>
          /\ pc' = "fetch"
          /\ transactions' = << >>
          /\ idx' = 0
          /\ parsed' = Null
          /\ position' = Null
          /\ \/ /\ pc \in {"advance", "catch"}
                /\ wi' = IF wi = Len(Wallets) THEN 1 ELSE wi + 1
             \/ /\ faults' > faults
                /\ wi' = 1
    /\ positions' # positions =>
          /\ pc \in {"recordBuy", "recordSell"}
          /\ wi' = wi
          /\ \A i \in 1..Len(positions') :
                (i > Len(positions) \/ positions'[i] # positions[i]) =>
                    /\ positions'[i].wallet_address = Wallets[wi]
                    /\ i <= Len(positions) => positions[i] = position[1]
    /\ processed_signatures' # processed_signatures =>
          /\ wi' = wi
          /\ \A r \in processed_signatures' \ processed_signatures :
                r.wallet_address = Wallets[wi]
    /\ sent' # sent =>
          /\ wi' = wi
          /\ NewMessage.walletAddress = Wallets[wi]
    /\ pc = "recordSell" =>
          /\ position # Null
          /\ \E i \in 1..Len(positions) : positions[i] = position[1]

\* C31: at any moment at most one wallet's pipeline is executing: the next
\* wallet starts only after the previous one has finished, a new cycle only
\* after the last wallet of the previous one, and no two
\* lookup-decide-write sequences on positions interleave
SingleTimeline == [][SingleTimelineStep]_vars

\* the second wallet is about to close its position, the first wallet
\* having written its own
SecondWalletClosesAfterFirst ==
    /\ wi = 2
    /\ pc = "recordSell"
    /\ \E i \in 1..Len(positions) : positions[i].wallet_address = Wallets[1]

----------------------------------------------------------------------------
(* The classifier as a function of the transaction and the wallet *)

\* C32: two calls of parseSwapTransaction with the same transaction and
\* the same wallet return the same value, whatever happened between them
ClassifierDeterminism ==
    (probe # Null /\ probe[1].again # Null) =>
        probe[1].again[1] = probe[1].result

----------------------------------------------------------------------------
(* Transactions classified as null *)

\* a null classification goes straight to the ledger insert, and the
\* insert, when the store works, adds the signature and moves on to the
\* next transaction; no row and no message is written on the way
NullHandlingStep ==
    /\ (pc = "parse" /\ pc' # "fetch" /\ parsed' = Null) =>
          /\ pc' = "markNotSwap"
          /\ UNCHANGED << positions, processed_signatures, sent >>
    /\ pc = "markNotSwap" =>
          /\ parsed = Null
          /\ UNCHANGED << positions, sent >>
          /\ faults' = faults =>
                /\ tx.signature \in {r.signature : r \in processed_signatures'}
                /\ pc' = "walk"
                /\ idx' = idx + 1
                /\ transactions' = transactions

\* C33: a transaction classified as null (not a swap, failed, no transfer
\* of the wallet, or a buy of a token that is too old) is added to
\* processed_signatures in the same cycle with no position write and no
\* notification, and raises no error
NullHandling == [][NullHandlingStep]_vars

----------------------------------------------------------------------------
(* An error in the middle of a walk *)

\* a step that raises writes nothing, and the catch block that follows
\* writes nothing either, leaves the watermark of the wallet as it was and
\* returns from processWallet: the walk stays at the failing transaction
ErrorMidWalkStep ==
    /\ (pc # "catch" /\ pc' = "catch") =>
          /\ UNCHANGED << positions, processed_signatures, sent,
                          lastProcessedSignatures, transactions, idx >>
    /\ (pc = "catch" /\ faults' = faults) =>
          /\ lastProcessedSignatures'[Wallets[wi]]
                = lastProcessedSignatures[Wallets[wi]]
          /\ UNCHANGED << positions, processed_signatures, sent >>
          /\ pc' = "fetch"
          /\ wi' = IF wi = Len(Wallets) THEN 1 ELSE wi + 1
          /\ transactions' = << >>

\* C34: when a step of a wallet's walk raises, the watermark of the wallet
\* keeps its value, no newer transaction of the batch is handled in that
\* cycle, and the signature of the failing transaction is not added to
\* processed_signatures
ErrorMidWalk == [][ErrorMidWalkStep]_vars

\* a step on a transaction has raised with newer transactions of the
\* batch behind it and a watermark set by an earlier cycle
RaisedWithNewerTransactionsLeft ==
    /\ pc = "catch"
    /\ idx >= 1
    /\ idx < Len(transactions)
    /\ reversedTxs[idx] \notin ProcessedSigs
    /\ lastProcessedSignatures[Wallets[wi]] # 0

----------------------------------------------------------------------------
(* A notification that fails *)

\* the notification of the transaction has just failed, its position
\* write done: the catch block is entered from sendBuyNotification or
\* sendSellNotification
NotificationFailed(sig) ==
    /\ pc = "catch"
    /\ idx \in 1..Len(transactions)
    /\ reversedTxs[idx] = sig
    /\ parsed # Null
    /\ parsed[1].type = "buy" => shouldNotifyBuy(parsed[1].valueUsd)
    /\ Recorded(sig)
    /\ ~Notified(sig)

\* C35: when the notification of a transaction fails after its position
\* write, the newer transactions of the wallet's batch are handled in a
\* later cycle, polling going on and the calls succeeding again
NotifierFailureDoesNotBlock ==
    \A p \in {q \in (1..MaxTx) \X (1..MaxTx) : q[1] < q[2]} :
        (NotificationFailed(p[1]) /\ p[2] \in Range(transactions))
            ~> (p[2] \in ProcessedSigs)

----------------------------------------------------------------------------
(* Notifications of one transaction *)

MessagesOf(sig) == {i \in 1..Len(sent) : sent[i].signature = sig}

\* C36: over cycles, failures, retries and restarts, at most one message
\* is sent for a transaction signature
AtMostOneNotification ==
    \A sig \in 1..Len(chain) : Cardinality(MessagesOf(sig)) <= 1

----------------------------------------------------------------------------
(* The wallets taken one by one *)

\* the classifier returns a buy of the wallet for the transaction,
\* known creation time or not
BuysFor(sig, w) ==
    LET p == parseSwapTransaction(Tx(sig), w,
                                  Some(TokenCreationTime(TokenM)))
    IN  p # Null /\ p[1].type = "buy"

\* C37: what is recorded for a wallet depends on its own batches only,
\* another wallet being tracked or not, a signature being in the batches
\* of both or not: as when the wallet is tracked alone, in a run without
\* failures every buy of the wallet that its walk has passed has its row
WalletIndependence ==
    (faults = 0 /\ pc \in {"walk", "advance"}) =>
        \A j \in 1..Len(reversedTxs) :
            (j < idx /\ BuysFor(reversedTxs[j], Wallets[wi])) =>
                \E r \in 1..Len(positions) :
                    /\ positions[r].wallet_address = Wallets[wi]
                    /\ positions[r].buy_signature = reversedTxs[j]

----------------------------------------------------------------------------
(* Polls that find nothing *)

\* a fetch that fails and the catch block it leads to, and the walk and
\* the return of processWallet over an empty batch, write nothing and
\* leave the watermarks as they are; the loop then goes on to the fetch
\* of the next wallet, and so comes back to this one
NoOpPollStep ==
    /\ (pc = "fetch" /\ pc' = "catch") =>
          UNCHANGED << positions, processed_signatures, sent,
                       lastProcessedSignatures, wi >>
    /\ (pc = "catch" /\ idx = 0 /\ faults' = faults) =>
          /\ UNCHANGED << positions, processed_signatures, sent,
                          lastProcessedSignatures >>
          /\ pc' = "fetch"
          /\ wi' = IF wi = Len(Wallets) THEN 1 ELSE wi + 1
    /\ (/\ pc \in {"walk", "advance"}
        /\ transactions = << >>
        /\ faults' = faults) =>
          /\ UNCHANGED << positions, processed_signatures, sent,
                          lastProcessedSignatures >>
          /\ \/ pc = "walk" /\ pc' = "advance" /\ wi' = wi
             \/ /\ pc = "advance"
                /\ pc' = "fetch"
                /\ wi' = IF wi = Len(Wallets) THEN 1 ELSE wi + 1

\* C38: a cycle in which the fetch of a wallet fails or returns an empty
\* batch leaves the wallet's watermark, positions and
\* processed_signatures unchanged and sends no notification, and the
\* wallet is fetched again in the next cycle
NoOpPolls == [][NoOpPollStep]_vars

\* the fetch has failed for a wallet that has a watermark and a position
FetchFailedForWalletWithHistory ==
    /\ pc = "catch"
    /\ idx = 0
    /\ lastProcessedSignatures[Wallets[wi]] # 0
    /\ \E r \in 1..Len(positions) :
          positions[r].wallet_address = Wallets[wi]

----------------------------------------------------------------------------
(* The traded token *)

PaymentMints == {WRAPPED_SOL, USDC_MINT, USDT_MINT}

\* C39: the tokenMint parseSwapTransaction returns is never wrapped SOL,
\* USDC or USDT
TradedTokenNotPayment ==
    (probe # Null /\ probe[1].returned /\ probe[1].result # Null) =>
        probe[1].result[1].tokenMint \notin PaymentMints

=============================================================================
